---- MODULE Spec2Model ----
(***************************************************************************)
(* Model of the MarkBind command line entry file (src/index.js): the       *)
(* one-shot commands include and render, and the live serve workflow       *)
(* (read config -> generate -> watch -> serve) with its watch handlers.    *)
(***************************************************************************)
EXTENDS Naturals, Sequences, FiniteSets, TLC

VARIABLES
    cmd,            \* the command commander dispatched: "include", "render", "serve"
    pc,             \* position of the command's promise chain
    siteConfigPath, \* result of findUp.sync(SITE_CONFIG_NAME): found or null
    varFile,        \* the file at <root>/_markbind/variables.md
    outputOpt,      \* options.output was given
    config,         \* the config object handed to the fragment engine
    written,        \* fs.outputFileSync has written the output file
    engine,         \* state of the promise returned by includeFile / renderFile
    nunjucksContext, \* render: the context given to nunjucks.renderString
    serverConfig,   \* serve: the live-server configuration object
    resolvedConfig, \* serve: the configuration site.readSiteConfig() resolved with
    listening,      \* serve: the address the server is bound to and the URL logged for it
    genState,       \* serve: state of the promise returned by site.generate()
    watcher,        \* serve: the chokidar watcher (installed, bound handlers)
    server,         \* serve: state of the live-server instance
    events,         \* serve: the handler invocations whose promise chain has not settled
    dispatched,     \* serve: number of filesystem events handed to a handler
    dropped,        \* serve: number of filesystem events the watcher ignored
    eventLog,       \* serve: logger output of the watch handlers, in program order
    trace           \* logger output and library calls of the command's chain, in program order

vars == <<cmd, pc, siteConfigPath, varFile, outputOpt, config, written, engine, nunjucksContext,
          serverConfig, resolvedConfig, listening, genState, watcher, server, events,
          dispatched, dropped, eventLog, trace>>

(***************************************************************************)
(* Bounds of the model.                                                    *)
(***************************************************************************)
MaxEvents == 2      \* filesystem events observed by the watcher in one run
MaxElems == 3       \* top-level elements of the variables file

(***************************************************************************)
(* Paths.  A path is a sequence of segments (the parts between separators) *)
(* and a segment is a sequence of tokens; the token "." is the character   *)
(* '.', every other token is a run of characters without '.' or separator. *)
(***************************************************************************)
Seg(a) == <<a>>
File(stem, ext) == <<stem, ".", ext>>

rootFolder == << Seg("proj") >>
outputFolder == rootFolder \o << Seg("_site") >>

JB_TMP == "___jb_tmp___"
JB_OLD == "___jb_old___"

\* Files below rootFolder on which the filesystem can report an event.
WatchedPaths ==
    { rootFolder \o << File("a", "md") >>,
      rootFolder \o << File("img", "png") >>,
      rootFolder \o << Seg("docs"), Seg("_site"), File("b", "html") >>,
      outputFolder \o << File("a", "html") >>,
      outputFolder \o << Seg("img"), File("img", "png") >>,
      rootFolder \o << <<".", "gitignore">> >>,
      rootFolder \o << Seg("docs"), <<".", "a", ".", "md">> >>,
      rootFolder \o << <<".", "git">>, Seg("config") >>,
      rootFolder \o << <<"a", ".", "md", JB_TMP>> >>,
      rootFolder \o << Seg("docs"), <<"img", ".", "png", JB_OLD>> >> }

Kinds == {"add", "change", "unlink"}

Basename(p) == p[Len(p)]

IsPrefix(d, p) ==
    /\ Len(d) <= Len(p)
    /\ \A i \in 1..Len(d) : p[i] = d[i]

\* x.endsWith(suffix), for a suffix that is one token
EndsWith(p, suffix) == Basename(p)[Len(Basename(p))] = suffix

\* /(^|[/\\])\../ : at the start of a segment a '.' followed by any character;
\* the following character is the next token or the separator before the next segment
DotRegex(p) ==
    \E i \in 1..Len(p) :
        /\ p[i][1] = "."
        /\ (Len(p[i]) >= 2 \/ i < Len(p))

\* ignored: [outputFolder, regex, endsWith tmp, endsWith old]; a directory string
\* given to the watcher also covers everything below it
ignoredNoDotRegex(p) ==
    \/ IsPrefix(outputFolder, p)
    \/ EndsWith(p, JB_TMP)
    \/ EndsWith(p, JB_OLD)

ignored(p) ==
    \/ IsPrefix(outputFolder, p)
    \/ DotRegex(p)
    \/ EndsWith(p, JB_TMP)
    \/ EndsWith(p, JB_OLD)

(***************************************************************************)
(* fsUtil.isSourceFile: the extension of the basename is a source-markup   *)
(* extension.                                                              *)
(***************************************************************************)
sourceFileExtNames == { <<"md">>, <<"html">> }

RECURSIVE LastDot(_, _)
LastDot(b, i) ==
    IF i = 0 THEN 0
    ELSE IF b[i] = "." THEN i
    ELSE LastDot(b, i - 1)

\* path.extname without its leading '.': empty when the basename has no '.'
\* or only a leading one
ExtName(p) ==
    LET b == Basename(p)
        d == LastDot(b, Len(b))
    IN  IF d <= 1 THEN <<>> ELSE SubSeq(b, d + 1, Len(b))

isSourceFile(p) == ExtName(p) \in sourceFileExtNames

(***************************************************************************)
(* The variables file, as the top-level elements cheerio finds in it.      *)
(***************************************************************************)
Ids == {"a", "baseUrl", "undefined"}
Htmls == {"x", "y"}

Elements ==
    [hasId : {TRUE}, id : Ids, html : Htmls] \cup [hasId : {FALSE}, id : {""}, html : Htmls]

RECURSIVE SeqsUpTo(_, _)
SeqsUpTo(S, n) ==
    IF n = 0 THEN { <<>> }
    ELSE LET shorter == SeqsUpTo(S, n - 1)
         IN  shorter \cup { Append(q, e) : q \in { r \in shorter : Len(r) = n - 1 }, e \in S }

VarFiles ==
    { [readable |-> TRUE, elems |-> q] : q \in SeqsUpTo(Elements, MaxElems) }
        \cup { [readable |-> FALSE, elems |-> <<>>] }

\* findUp.sync returns the path of site.json (directory, name), or null
Null == <<>>
SITE_CONFIG_NAME == "site.json"
SiteConfigPaths == { Null, <<"/proj", SITE_CONFIG_NAME>> }

\* path.dirname of a found site.json
Dirname(f) == f[1]

BASE_URL_PLACEHOLDER == "{{baseUrl}}"

(***************************************************************************)
(* JavaScript objects are functions from property keys to values.          *)
(***************************************************************************)
EmptyObject == [k \in {} |-> ""]

\* $(this).attr('id'): the attribute's string, or undefined
Attr(el) ==
    IF el.hasId THEN [type |-> "string", val |-> el.id]
    ELSE [type |-> "undefined", val |-> ""]

\* a value used as a property key is converted to a string
ToPropertyKey(v) == IF v.type = "undefined" THEN "undefined" ELSE v.val

\* obj[key] = val on a plain object: the property is created or overwritten
SetProperty(obj, key, val) == (key :> val) @@ obj

\* $.root().children().each(...): userDefinedVariables[id] = html, in document order
RECURSIVE EachChild(_, _, _)
EachChild(elems, i, userDefinedVariables) ==
    IF i > Len(elems) THEN userDefinedVariables
    ELSE EachChild(elems, i + 1,
                   SetProperty(userDefinedVariables, ToPropertyKey(Attr(elems[i])), elems[i].html))

\* fs.readFileSync in try/catch: the content, or '' when the read throws
ReadContent(f) == IF f.readable THEN f.elems ELSE <<>>

\* userDefinedVariables.baseUrl = '{{baseUrl}}'
injectBaseUrlIfAbsent(userDefinedVariables) ==
    IF "baseUrl" \in DOMAIN userDefinedVariables THEN userDefinedVariables
    ELSE ("baseUrl" :> BASE_URL_PLACEHOLDER) @@ userDefinedVariables

injectBaseUrl(userDefinedVariables) ==
    ("baseUrl" :> BASE_URL_PLACEHOLDER) @@ userDefinedVariables

\* lines 57-76: the variable map built from the variables file
UserDefinedVariables(f) == injectBaseUrl(EachChild(ReadContent(f), 1, EmptyObject))

IncludeConfigNoVariables(rootPath, f) ==
    ("rootPath" :> rootPath)
        @@ ("baseUrlMap" :> (rootPath :> TRUE))
        @@ ("userDefinedVariablesMap" :> EmptyObject)

\* lines 50-55 and 76: the config object of the include command
IncludeConfig(rootPath, f) ==
    ("rootPath" :> rootPath)
        @@ ("baseUrlMap" :> (rootPath :> TRUE))
        @@ ("userDefinedVariablesMap" :> (rootPath :> UserDefinedVariables(f)))

\* lines 101-105: the config object of the render command
RenderConfig(rootPath) ==
    ("rootPath" :> rootPath) @@ ("baseUrlMap" :> (rootPath :> TRUE))

T(op) == [op |-> op, ev |-> 0]
TE(op, i) == [op |-> op, ev |-> i]

ReadTraceSilent(f) == << T("readFileSync") >>

\* lines 59-65: the calls of the guarded read
ReadTrace(f) ==
    IF f.readable THEN << T("readFileSync") >> ELSE << T("readFileSync"), T("warn") >>

(***************************************************************************)
(* Initial state: commander has parsed the command line and is about to    *)
(* run the action of one command.  The inputs of the one-shot commands     *)
(* are the site.json search result, the variables file and the -o option.  *)
(***************************************************************************)
SiteConfigs ==
    { [hasBaseUrl |-> FALSE, baseUrl |-> ""],
      [hasBaseUrl |-> TRUE, baseUrl |-> ""],
      [hasBaseUrl |-> TRUE, baseUrl |-> "/docs"] }

NoSiteConfig == [hasBaseUrl |-> FALSE, baseUrl |-> ""]

NoWatcher == [installed |-> FALSE, on |-> EmptyObject]

\* server.address() once the server listens
Hosts == {"0.0.0.0", "127.0.0.1", "192.168.0.5"}
Ports == {8080, 3000}
Addresses == [address : Hosts, port : Ports]

NotListening == [address |-> [address |-> "", port |-> 0], serveURL |-> <<>>]

serveHostRaw(address) == address.address

\* line 224: the wildcard address is shown as the loopback address
serveHost(address) ==
    IF address.address = "0.0.0.0" THEN "127.0.0.1" ELSE address.address

\* line 225: `http://${serveHost}:${address.port}`
serveURL(address) == << "http://", serveHost(address), ":", address.port >>

Init ==
    /\ cmd \in {"include", "render", "serve"}
    /\ pc = "start"
    /\ IF cmd = "serve"
       THEN /\ siteConfigPath = Null
            /\ varFile = [readable |-> FALSE, elems |-> <<>>]
            /\ outputOpt = FALSE
       ELSE /\ siteConfigPath \in SiteConfigPaths
            /\ varFile \in VarFiles
            /\ outputOpt \in BOOLEAN
    /\ config = EmptyObject
    /\ written = FALSE
    /\ engine = "none"
    /\ nunjucksContext = EmptyObject
    /\ serverConfig = [root |-> <<>>, mount |-> <<>>]
    /\ resolvedConfig = NoSiteConfig
    /\ listening = NotListening
    /\ genState = "none"
    /\ watcher = NoWatcher
    /\ server = "none"
    /\ events = <<>>
    /\ dispatched = 0
    /\ dropped = 0
    /\ eventLog = <<>>
    /\ trace = <<>>

serveVars == <<serverConfig, resolvedConfig, listening, genState, watcher, server, events,
               dispatched, dropped, eventLog>>
inputVars == <<cmd, siteConfigPath, varFile, outputOpt>>

(***************************************************************************)
(* include <file>  (lines 49-94)                                           *)
(***************************************************************************)
\* a missing site.json falls back to the current directory as root
IncludeActionDefaultRoot ==
    /\ cmd = "include" /\ pc = "start"
    /\ config' = IncludeConfig(IF siteConfigPath = Null THEN "." ELSE Dirname(siteConfigPath),
                               varFile)
    /\ trace' = trace \o << T("findUp") >> \o ReadTrace(varFile)
                  \o << T("cheerio.load"), T("includeFile") >>
    /\ engine' = "pending"
    /\ pc' = "engine"
    /\ UNCHANGED <<inputVars, written, nunjucksContext, serveVars>>

\* the synchronous body of the action, up to the call of markbinder.includeFile;
\* path.dirname(null) throws when no site.json was found
IncludeAction ==
    /\ cmd = "include" /\ pc = "start"
    /\ IF siteConfigPath = Null
       THEN /\ pc' = "crashed"
            /\ trace' = trace \o << T("findUp") >>
            /\ UNCHANGED <<config, engine>>
       ELSE /\ config' = IncludeConfig(Dirname(siteConfigPath), varFile)
            /\ trace' = trace \o << T("findUp") >> \o ReadTrace(varFile)
                          \o << T("cheerio.load"), T("includeFile") >>
            /\ engine' = "pending"
            /\ pc' = "engine"
    /\ UNCHANGED <<inputVars, written, nunjucksContext, serveVars>>

\* .then((result) => ...): write the result to the output path, or log it
IncludeThen ==
    /\ cmd = "include" /\ pc = "engine"
    /\ \/ /\ outputOpt
          /\ written' = TRUE
          /\ trace' = trace \o << T("outputFileSync"), T("logo"), T("info") >>
          /\ pc' = "done"
       \/ /\ outputOpt      \* fs.outputFileSync throws: the chained catch runs
          /\ written' = FALSE
          /\ trace' = trace \o << T("outputFileSync"), T("logo"), T("error"), T("error") >>
          /\ pc' = "failed"
       \/ /\ ~outputOpt
          /\ written' = FALSE
          /\ trace' = trace \o << T("log") >>
          /\ pc' = "done"
    /\ engine' = "resolved"
    /\ UNCHANGED <<inputVars, config, nunjucksContext, serveVars>>

\* the failure handler also runs the output step
IncludeCatchWrites ==
    /\ cmd = "include" /\ pc = "engine"
    /\ written' = outputOpt
    /\ trace' = trace \o << T("logo"), T("error"), T("error") >>
                  \o (IF outputOpt THEN << T("outputFileSync") >> ELSE << T("log") >>)
    /\ engine' = "rejected"
    /\ pc' = "failed"
    /\ UNCHANGED <<inputVars, config, nunjucksContext, serveVars>>

\* .catch((error) => ...) after includeFile rejected
IncludeCatch ==
    /\ cmd = "include" /\ pc = "engine"
    /\ trace' = trace \o << T("logo"), T("error"), T("error") >>
    /\ engine' = "rejected"
    /\ pc' = "failed"
    /\ UNCHANGED <<inputVars, config, written, nunjucksContext, serveVars>>

(***************************************************************************)
(* render <file>  (lines 100-125)                                          *)
(***************************************************************************)
RenderAction ==
    /\ cmd = "render" /\ pc = "start"
    /\ IF siteConfigPath = Null
       THEN /\ pc' = "crashed"
            /\ trace' = trace \o << T("findUp") >>
            /\ UNCHANGED <<config, engine>>
       ELSE /\ config' = RenderConfig(Dirname(siteConfigPath))
            /\ trace' = trace \o << T("findUp"), T("renderFile") >>
            /\ engine' = "pending"
            /\ pc' = "engine"
    /\ UNCHANGED <<inputVars, written, nunjucksContext, serveVars>>

\* lines 108-111: baseUrl and hostBaseUrl of the second expansion
RenderContext(c) == ("baseUrl" :> c.rootPath) @@ ("hostBaseUrl" :> c.rootPath)

\* the result is written or logged before it is formatted and expanded
RenderThenWriteFirst ==
    /\ cmd = "render" /\ pc = "engine"
    /\ written' = outputOpt
    /\ trace' = trace \o (IF outputOpt THEN << T("outputFileSync"), T("logo"), T("info") >>
                                       ELSE << T("log") >>)
                  \o << T("htmlBeautify"), T("renderString") >>
    /\ pc' = "done"
    /\ engine' = "resolved"
    /\ nunjucksContext' = RenderContext(config)
    /\ UNCHANGED <<inputVars, config, serveVars>>

\* .then((result) => ...): format, expand a second time, then write or log
RenderThen ==
    /\ cmd = "render" /\ pc = "engine"
    /\ \/ /\ outputOpt
          /\ written' = TRUE
          /\ trace' = trace \o << T("htmlBeautify"), T("renderString"),
                                  T("outputFileSync"), T("logo"), T("info") >>
          /\ pc' = "done"
       \/ /\ outputOpt      \* fs.outputFileSync throws
          /\ written' = FALSE
          /\ trace' = trace \o << T("htmlBeautify"), T("renderString"),
                                  T("outputFileSync"), T("error"), T("error") >>
          /\ pc' = "failed"
       \/ /\ ~outputOpt
          /\ written' = FALSE
          /\ trace' = trace \o << T("htmlBeautify"), T("renderString"), T("log") >>
          /\ pc' = "done"
       \/ /\ written' = FALSE      \* nunjucks.renderString throws
          /\ trace' = trace \o << T("htmlBeautify"), T("renderString"),
                                  T("error"), T("error") >>
          /\ pc' = "failed"
    /\ engine' = "resolved"
    /\ nunjucksContext' = RenderContext(config)
    /\ UNCHANGED <<inputVars, config, serveVars>>

\* .catch((error) => ...) after renderFile rejected
RenderCatch ==
    /\ cmd = "render" /\ pc = "engine"
    /\ trace' = trace \o << T("error"), T("error") >>
    /\ engine' = "rejected"
    /\ pc' = "failed"
    /\ UNCHANGED <<inputVars, config, written, nunjucksContext, serveVars>>

(***************************************************************************)
(* serve [root]  (lines 147-233)                                           *)
(***************************************************************************)
oneShotVars == <<siteConfigPath, varFile, outputOpt, config, written, engine, nunjucksContext>>

\* lines 153-187: what each handler's deferred callback calls on the site
addHandlerThen(filePath) ==
    IF isSourceFile(filePath) THEN "rebuildAffectedSourceFiles" ELSE "buildAsset"

changeHandlerThenAsset(filePath) == "buildAsset"

changeHandlerThen(filePath) ==
    IF isSourceFile(filePath) THEN "rebuildAffectedSourceFiles" ELSE "buildAsset"

removeHandlerThenAsAdd(filePath) ==
    IF isSourceFile(filePath) THEN "rebuildAffectedSourceFiles" ELSE "buildAsset"

removeHandlerThen(filePath) ==
    IF isSourceFile(filePath) THEN "rebuildAffectedSourceFiles" ELSE "removeAsset"

HandlerThen(handler, filePath) ==
    CASE handler = "addHandler" -> addHandlerThen(filePath)
      [] handler = "changeHandler" -> changeHandlerThen(filePath)
      [] handler = "removeHandler" -> removeHandlerThen(filePath)

\* lines 215-218: watcher.on('add', addHandler).on('change', ...).on('unlink', ...)
BoundHandlers ==
    ("add" :> "addHandler") @@ ("change" :> "changeHandler") @@ ("unlink" :> "removeHandler")

\* line 203: serverConfig.mount.push([config.baseUrl || '/', outputFolder])
MountPointNoDefault(siteConfig) == << siteConfig.baseUrl, outputFolder >>

MountPoint(siteConfig) ==
    << IF siteConfig.hasBaseUrl /\ siteConfig.baseUrl # "" THEN siteConfig.baseUrl ELSE "/",
       outputFolder >>

\* lines 147-201: the synchronous body of the action, up to site.readSiteConfig()
ServeAction ==
    /\ cmd = "serve" /\ pc = "start"
    /\ serverConfig' = [root |-> outputFolder, mount |-> <<>>]
    /\ trace' = trace \o << T("logo"), T("readSiteConfig") >>
    /\ pc' = "readSiteConfig"
    /\ UNCHANGED <<eventLog, cmd, oneShotVars, resolvedConfig, listening, genState,
                   watcher, server, events, dispatched, dropped>>

\* the callback calls site.generate() without returning its promise
ReadSiteConfigThenNoReturn ==
    /\ cmd = "serve" /\ pc = "readSiteConfig"
    /\ \E c \in SiteConfigs :
          /\ resolvedConfig' = c
          /\ serverConfig' = [serverConfig EXCEPT !.mount = Append(@, MountPoint(c))]
    /\ genState' = "pending"
    /\ trace' = trace \o << T("generate") >>
    /\ pc' = "generated"
    /\ UNCHANGED <<eventLog, cmd, oneShotVars, listening, watcher, server, events,
                   dispatched, dropped>>

\* lines 202-205: readSiteConfig resolved; register the mount point, start generation
ReadSiteConfigThen ==
    /\ cmd = "serve" /\ pc = "readSiteConfig"
    /\ \E c \in SiteConfigs :
          /\ resolvedConfig' = c
          /\ serverConfig' = [serverConfig EXCEPT !.mount = Append(@, MountPoint(c))]
    /\ genState' = "pending"
    /\ trace' = trace \o << T("generate") >>
    /\ pc' = "generate"
    /\ UNCHANGED <<eventLog, cmd, oneShotVars, listening, watcher, server, events,
                   dispatched, dropped>>

\* lines 230-232: the chain's catch, reached from a rejected readSiteConfig
ReadSiteConfigCatch ==
    /\ cmd = "serve" /\ pc = "readSiteConfig"
    /\ trace' = trace \o << T("error") >>
    /\ pc' = "caught"
    /\ UNCHANGED <<cmd, oneShotVars, serveVars>>

\* the promise of site.generate() settles
GenerateResolves ==
    /\ cmd = "serve" /\ pc = "generate" /\ genState = "pending"
    /\ genState' = "resolved"
    /\ pc' = "generated"
    /\ UNCHANGED <<eventLog, cmd, oneShotVars, resolvedConfig, listening, serverConfig,
                   watcher, server, events, dispatched, dropped, trace>>

\* a catch placed before the watcher step: the chain goes on after the failure
GenerateCatchEarly ==
    /\ cmd = "serve" /\ pc = "generate" /\ genState = "pending"
    /\ genState' = "rejected"
    /\ trace' = trace \o << T("error") >>
    /\ pc' = "generated"
    /\ UNCHANGED <<eventLog, cmd, oneShotVars, resolvedConfig, listening, serverConfig,
                   watcher, server, events, dispatched, dropped>>

\* lines 230-232: the chain's catch, reached from a rejected site.generate()
GenerateCatch ==
    /\ cmd = "serve" /\ pc = "generate" /\ genState = "pending"
    /\ genState' = "rejected"
    /\ trace' = trace \o << T("error") >>
    /\ pc' = "caught"
    /\ UNCHANGED <<eventLog, cmd, oneShotVars, resolvedConfig, listening, serverConfig,
                   watcher, server, events, dispatched, dropped>>

\* lines 206-219: install the watcher and bind the three handlers
InstallWatcher ==
    /\ cmd = "serve" /\ pc = "generated"
    /\ watcher' = [installed |-> TRUE, on |-> BoundHandlers]
    /\ trace' = trace \o << T("chokidar.watch") >>
    /\ pc' = "watching"
    /\ UNCHANGED <<eventLog, cmd, oneShotVars, resolvedConfig, listening, serverConfig,
                   genState, server, events, dispatched, dropped>>

\* lines 220-229: liveServer.start(serverConfig) and the 'listening' listener
StartServerEarly ==
    /\ cmd = "serve" /\ pc = "generate" /\ server = "none"
    /\ server' = "started"
    /\ trace' = trace \o << T("liveServer.start") >>
    /\ UNCHANGED <<pc, eventLog, cmd, oneShotVars, resolvedConfig, listening, serverConfig,
                   genState, watcher, events, dispatched, dropped>>

StartServer ==
    /\ cmd = "serve" /\ pc = "watching"
    /\ server' = "started"
    /\ trace' = trace \o << T("liveServer.start") >>
    /\ pc' = "serving"
    /\ UNCHANGED <<eventLog, cmd, oneShotVars, resolvedConfig, listening, serverConfig,
                   genState, watcher, events, dispatched, dropped>>

\* lines 230-232: liveServer.start throws; the chain's catch logs the error
StartServerCatch ==
    /\ cmd = "serve" /\ pc = "watching"
    /\ server' = "failed"
    /\ trace' = trace \o << T("liveServer.start"), T("error") >>
    /\ pc' = "caught"
    /\ UNCHANGED <<eventLog, cmd, oneShotVars, resolvedConfig, listening, serverConfig,
                   genState, watcher, events, dispatched, dropped>>

\* lines 222-228: the server emits 'listening'; the URL is logged
ServerListening ==
    /\ cmd = "serve" /\ pc = "serving" /\ server = "started"
    /\ server' = "listening"
    /\ \E address \in Addresses :
          listening' = [address |-> address, serveURL |-> serveURL(address)]
    /\ trace' = trace \o << T("info:Serving"), T("info:Press CTRL+C") >>
    /\ UNCHANGED <<eventLog, cmd, pc, oneShotVars, resolvedConfig, serverConfig, genState,
                   watcher, events, dispatched, dropped>>

(***************************************************************************)
(* Watch events.  The watcher reports an event on a path only to the       *)
(* handler bound to the event's kind, and not at all if the path matches   *)
(* one of the ignored entries.                                             *)
(***************************************************************************)
Seen == dispatched + dropped

Remove(q, i) == SubSeq(q, 1, i - 1) \o SubSeq(q, i + 1, Len(q))

WatcherIgnores(kind, filePath) ==
    /\ watcher.installed /\ Seen < MaxEvents
    /\ ignored(filePath)
    /\ dropped' = dropped + 1
    /\ UNCHANGED <<eventLog, cmd, pc, oneShotVars, resolvedConfig, listening, serverConfig,
                   genState, watcher, server, events, dispatched, trace>>

\* lines 153-155, 165-167, 177-179: the handler logs the reload and defers its callback
WatcherEmitsCancels(kind, filePath) ==
    /\ watcher.installed /\ Seen < MaxEvents
    /\ ~ignored(filePath)
    /\ kind \in DOMAIN watcher.on
    /\ dispatched' = dispatched + 1
    /\ events' = Append(SelectSeq(events, LAMBDA e : e.filePath # filePath),
                        [id |-> dispatched + 1, kind |-> kind, filePath |-> filePath,
                         handler |-> watcher.on[kind],
                         status |-> "scheduled", method |-> "none", arg |-> <<>>])
    /\ eventLog' = Append(eventLog, TE("info:Reload", dispatched + 1))
    /\ UNCHANGED <<trace, cmd, pc, oneShotVars, resolvedConfig, listening, serverConfig,
                   genState, watcher, server, dropped>>

WatcherEmits(kind, filePath) ==
    /\ watcher.installed /\ Seen < MaxEvents
    /\ ~ignored(filePath)
    /\ kind \in DOMAIN watcher.on
    /\ dispatched' = dispatched + 1
    /\ events' = Append(events, [id |-> dispatched + 1, kind |-> kind, filePath |-> filePath,
                                 handler |-> watcher.on[kind],
                                 status |-> "scheduled", method |-> "none", arg |-> <<>>])
    /\ eventLog' = Append(eventLog, TE("info:Reload", dispatched + 1))
    /\ UNCHANGED <<trace, cmd, pc, oneShotVars, resolvedConfig, listening, serverConfig,
                   genState, watcher, server, dropped>>

\* lines 155-159, 167-171, 179-183: the deferred callback calls the site
HandlerCallbackRegenerates(i) ==
    /\ events[i].status = "scheduled"
    /\ events' = [events EXCEPT ![i].status = "running",
                                ![i].method = HandlerThen(events[i].handler, events[i].filePath),
                                ![i].arg = events[i].filePath]
    /\ trace' = trace \o << T("generate") >>
    /\ UNCHANGED <<eventLog, cmd, pc, oneShotVars, resolvedConfig, listening, serverConfig,
                   genState, watcher, server, dispatched, dropped>>

HandlerCallback(i) ==
    /\ events[i].status = "scheduled"
    /\ events' = [events EXCEPT ![i].status = "running",
                                ![i].method = HandlerThen(events[i].handler, events[i].filePath),
                                ![i].arg = events[i].filePath]
    /\ UNCHANGED <<eventLog, cmd, pc, oneShotVars, resolvedConfig, listening, serverConfig,
                   genState, watcher, server, dispatched, dropped, trace>>

\* the promise of the site call resolves
BuilderResolves(i) ==
    /\ events[i].status = "running"
    /\ events' = Remove(events, i)
    /\ UNCHANGED <<eventLog, cmd, pc, oneShotVars, resolvedConfig, listening, serverConfig,
                   genState, watcher, server, dispatched, dropped, trace>>

\* no catch on the handler's chain: the failure ends the process, watcher and server with it
HandlerCatchExits(i) ==
    /\ events[i].status = "running"
    /\ events' = <<>>
    /\ watcher' = NoWatcher
    /\ server' = "none"
    /\ eventLog' = Append(eventLog, TE("error", events[i].id))
    /\ UNCHANGED <<trace, cmd, pc, oneShotVars, resolvedConfig, listening, serverConfig,
                   genState, dispatched, dropped>>

\* lines 160-162, 172-174, 184-186: the site call fails; the handler's catch logs it
HandlerCatch(i) ==
    /\ events[i].status = "running"
    /\ events' = Remove(events, i)
    /\ eventLog' = Append(eventLog, TE("error", events[i].id))
    /\ UNCHANGED <<trace, cmd, pc, oneShotVars, resolvedConfig, listening, serverConfig,
                   genState, watcher, server, dispatched, dropped>>

Next ==
    \/ IncludeAction
    \/ IncludeThen
    \/ IncludeCatch
    \/ RenderAction
    \/ RenderThen
    \/ RenderCatch
    \/ ServeAction
    \/ ReadSiteConfigThen
    \/ ReadSiteConfigCatch
    \/ GenerateResolves
    \/ GenerateCatch
    \/ InstallWatcher
    \/ StartServer
    \/ StartServerCatch
    \/ ServerListening
    \/ \E kind \in Kinds, filePath \in WatchedPaths : WatcherIgnores(kind, filePath)
    \/ \E kind \in Kinds, filePath \in WatchedPaths : WatcherEmits(kind, filePath)
    \/ \E i \in 1..Len(events) : HandlerCallback(i)
    \/ \E i \in 1..Len(events) : BuilderResolves(i)
    \/ \E i \in 1..Len(events) : HandlerCatch(i)

Spec == Init /\ [][Next]_vars

(***************************************************************************)
(* Properties.                                                             *)
(***************************************************************************)
Has(op) == \E i \in 1..Len(trace) : trace[i].op = op
Before(a, b) == \E i, j \in 1..Len(trace) : i < j /\ trace[i].op = a /\ trace[j].op = b
Count(op) == Cardinality({ i \in 1..Len(trace) : trace[i].op = op })
InFlight == { events[i] : i \in 1..Len(events) }

\* C1: in serve, the watcher is installed, and a watch handler or a builder call
\* started, only when the full generation has completed successfully.
C1_GenerateBeforeWatch ==
    (watcher.installed \/ dispatched > 0 \/ events # <<>>) => genState = "resolved"

C1_Witness ==
    /\ watcher.installed
    /\ \E e \in InFlight : e.status = "running"

\* C2: in serve, when reading the site configuration or the full generation has
\* failed, the watcher is not installed, the server is not started, no watch
\* event is dispatched, and the error has been logged.
ConfigFailed == cmd = "serve" /\ pc = "caught" /\ genState = "none"
GenerateFailed == cmd = "serve" /\ genState = "rejected"

C2_AbortOnEarlyFailure ==
    (ConfigFailed \/ GenerateFailed) =>
        /\ ~watcher.installed
        /\ server = "none"
        /\ dispatched = 0 /\ dropped = 0 /\ events = <<>>
        /\ ~Has("chokidar.watch") /\ ~Has("liveServer.start")
        /\ Count("error") = 1
        /\ pc = "caught"

C2_Witness == GenerateFailed /\ Has("error")

\* C3: a dispatched watch event calls exactly the builder method of the table
\* (add/change: source -> rebuildAffectedSourceFiles, asset -> buildAsset;
\* unlink: source -> rebuildAffectedSourceFiles, asset -> removeAsset), with the
\* event's path, and no method before its callback has run.
TableAction(kind, isSource) ==
    CASE isSource -> "rebuildAffectedSourceFiles"
      [] ~isSource /\ kind \in {"add", "change"} -> "buildAsset"
      [] ~isSource /\ kind = "unlink" -> "removeAsset"

C3_DispatchTable ==
    \A e \in InFlight :
        /\ e.status = "scheduled" => e.method = "none"
        /\ e.status = "running" =>
              /\ e.method = TableAction(e.kind, isSourceFile(e.filePath))
              /\ e.arg = e.filePath

C3_Witness ==
    \E e \in InFlight :
        /\ e.kind = "unlink" /\ ~isSourceFile(e.filePath)
        /\ e.status = "running" /\ e.method = "removeAsset"

\* C4: the step in which the builder call of a watch event fails logs the error
\* and leaves the watcher, the server and the serve chain as they are; after
\* such a failure the watcher is still installed with its three handlers bound.
EventErrorAt(i) == eventLog[i].op = "error" /\ eventLog[i].ev > 0
EventFailed == \E i \in 1..Len(eventLog) : EventErrorAt(i)
FailureStep ==
    /\ Len(events') < Len(events)
    /\ \E i \in 1..Len(events) : events[i].status = "running" /\ events' = Remove(events, i)
    /\ eventLog' # eventLog

C4_FailureIsolated ==
    /\ [][FailureStep =>
            /\ watcher' = watcher /\ server' = server /\ pc' = pc
            /\ Len(eventLog') = Len(eventLog) + 1
            /\ EventErrorAt(Len(eventLog))']_vars
    /\ [](EventFailed => watcher.installed /\ watcher.on = BoundHandlers)

C4_Witness ==
    /\ \E i, j \in 1..Len(eventLog) :
          /\ i < j /\ EventErrorAt(i)
          /\ eventLog[j].op = "info:Reload"
          /\ \E e \in InFlight : e.id = eventLog[j].ev /\ e.status = "running" /\ e.method # "none"
    /\ watcher.installed

\* C5: no watch event is dispatched, classified or built for a path under the
\* output directory, or whose basename starts with '.', or whose basename ends
\* with ___jb_tmp___ or ___jb_old___; the ignore predicate holds for every such path.
UnderOutput(p) == Len(p) > Len(outputFolder) /\ SubSeq(p, 1, Len(outputFolder)) = outputFolder
BasenameStartsWithDot(p) == Basename(p)[1] = "."
BasenameEndsWithTemp(p) == Basename(p)[Len(Basename(p))] \in {JB_TMP, JB_OLD}
MustIgnore(p) == UnderOutput(p) \/ BasenameStartsWithDot(p) \/ BasenameEndsWithTemp(p)

C5_IgnoredNeverDispatched ==
    /\ \A e \in InFlight : ~MustIgnore(e.filePath)
    /\ watcher.installed => \A p \in WatchedPaths : MustIgnore(p) => ignored(p)

C5_Witness ==
    /\ dropped > 0 /\ dispatched > 0
    /\ \E e \in InFlight : e.status = "running"

\* the variable map the engine was given for the resolved root
EngineVariables == config.userDefinedVariablesMap[config.rootPath]

BaseConfigOk ==
    /\ "rootPath" \in DOMAIN config
    /\ "baseUrlMap" \in DOMAIN config
    /\ config.rootPath = Dirname(siteConfigPath)
    /\ config.rootPath \in DOMAIN config.baseUrlMap
    /\ config.baseUrlMap[config.rootPath] = TRUE

VariablesConfigOk ==
    /\ "userDefinedVariablesMap" \in DOMAIN config
    /\ config.rootPath \in DOMAIN config.userDefinedVariablesMap

C7_BaseUrlPlaceholder ==
    (Has("includeFile") /\ "userDefinedVariablesMap" \in DOMAIN config) =>
        \A r \in DOMAIN config.userDefinedVariablesMap :
            /\ "baseUrl" \in DOMAIN config.userDefinedVariablesMap[r]
            /\ config.userDefinedVariablesMap[r]["baseUrl"] = BASE_URL_PLACEHOLDER

C7_Witness ==
    /\ Has("includeFile") /\ varFile.readable /\ Len(varFile.elems) >= 2
    /\ \A i \in 1..Len(varFile.elems) :
          varFile.elems[i].hasId /\ varFile.elems[i].id = "baseUrl"
    /\ EngineVariables["baseUrl"] = BASE_URL_PLACEHOLDER

\* C8 (as stated): the keys of the variable map are exactly the ids declared by
\* the top-level elements plus baseUrl, so N distinct ids other than baseUrl give
\* N + 1 entries and an element without id adds no entry.
DeclaredIds(f) ==
    { f.elems[i].id : i \in { j \in 1..Len(f.elems) : f.elems[j].hasId } }

C8_KeysAreDeclaredIds ==
    (cmd = "include" /\ Has("includeFile")) =>
        /\ DOMAIN EngineVariables = DeclaredIds(varFile) \cup {"baseUrl"}
        /\ Cardinality(DOMAIN EngineVariables)
              = Cardinality(DeclaredIds(varFile) \ {"baseUrl"}) + 1

\* C9 (as stated): an id other than baseUrl that several top-level elements
\* carry is mapped to the inner markup of the last of them.
Occurrences(f, id) ==
    { i \in 1..Len(f.elems) : f.elems[i].hasId /\ f.elems[i].id = id }

Last(S) == CHOOSE i \in S : \A j \in S : j <= i

C9_LastWins ==
    (cmd = "include" /\ Has("includeFile")) =>
        \A id \in Ids \ {"baseUrl"} :
            Cardinality(Occurrences(varFile, id)) >= 2 =>
                /\ id \in DOMAIN EngineVariables
                /\ EngineVariables[id] = varFile.elems[Last(Occurrences(varFile, id))].html

\* C10: when the variables file of the resolved root cannot be read, include
\* warns once, builds a variable map holding only the forced baseUrl entry, does
\* not fail, and goes on to invoke the fragment engine.
C10_MissingFileTolerated ==
    (cmd = "include" /\ siteConfigPath # Null /\ ~varFile.readable /\ pc # "start") =>
        /\ pc # "crashed"
        /\ Count("warn") = 1
        /\ Before("warn", "includeFile")
        /\ DOMAIN EngineVariables = {"baseUrl"}
        /\ EngineVariables["baseUrl"] = BASE_URL_PLACEHOLDER

C10_Witness ==
    /\ cmd = "include" /\ ~varFile.readable
    /\ pc = "done" /\ Has("warn") /\ Has("includeFile")

\* C11: include run where no ancestor directory holds site.json fails at once:
\* no root is assumed, no variables file is read, the fragment engine is not
\* invoked and no file is written.
C11_NoRootFailsInclude ==
    (cmd = "include" /\ siteConfigPath = Null /\ pc # "start") =>
        /\ pc = "crashed"
        /\ engine = "none" /\ ~Has("includeFile")
        /\ DOMAIN config = {}
        /\ ~Has("readFileSync")
        /\ ~written /\ ~Has("outputFileSync")

C11_Witness ==
    /\ cmd = "include" /\ siteConfigPath = Null
    /\ pc = "crashed" /\ Has("findUp")

\* C14: when includeFile or renderFile fails, the command writes no output file
\* and logs no result; it only logs the error.
C14_EngineFailureNoOutput ==
    engine = "rejected" =>
        /\ ~written /\ ~Has("outputFileSync")
        /\ ~Has("log") /\ ~Has("info")
        /\ ~Has("htmlBeautify") /\ ~Has("renderString")
        /\ Count("error") = 2
        /\ pc = "failed"

C14_Witness ==
    /\ cmd = "include" /\ outputOpt
    /\ engine = "rejected" /\ Has("error")

\* C19: render runs renderFile, htmlBeautify, the second expansion with baseUrl
\* and hostBaseUrl both equal to the resolved root, and the write or log of the
\* result in this order, each at most once; nothing is written or logged before
\* the second expansion.
AtMostOnce(op) == Count(op) <= 1
Output == {"outputFileSync", "log"}

C19_RenderOrder ==
    cmd = "render" =>
        /\ \A op \in {"renderFile", "htmlBeautify", "renderString", "outputFileSync", "log"} :
              AtMostOnce(op)
        /\ ~(Has("outputFileSync") /\ Has("log"))
        /\ Has("htmlBeautify") => Before("renderFile", "htmlBeautify")
        /\ Has("renderString") =>
              /\ Before("htmlBeautify", "renderString")
              /\ DOMAIN nunjucksContext = {"baseUrl", "hostBaseUrl"}
              /\ nunjucksContext["baseUrl"] = Dirname(siteConfigPath)
              /\ nunjucksContext["hostBaseUrl"] = Dirname(siteConfigPath)
        /\ \A op \in Output : Has(op) => Before("renderString", op)
        /\ \A i, j \in 1..Len(trace) :
              (trace[i].op \in Output /\ trace[j].op \in {"htmlBeautify", "renderString"}) => j < i
        /\ written => Has("outputFileSync") /\ outputOpt

C19_Witness ==
    /\ cmd = "render" /\ outputOpt /\ written
    /\ pc = "done" /\ Has("renderString")

\* C12: once the server's start has thrown and the chain's catch has logged the
\* error, serve is over: no later watch event is dispatched to a handler (and so
\* none triggers a builder action).
C12_ServerFailureAborts ==
    [][server = "failed" => dispatched' = dispatched]_vars

\* C13 (as stated): at server start there is exactly one mount point, the
\* configured baseUrl when one is defined and "/" otherwise, onto the output
\* folder.
C13_DefinedBaseUrlMounted ==
    Has("liveServer.start") =>
        serverConfig.mount =
            << << IF resolvedConfig.hasBaseUrl THEN resolvedConfig.baseUrl ELSE "/",
                  outputFolder >> >>

\* C13 (amended): at server start there is exactly one mount point, the
\* configured baseUrl when it is defined and non-empty and "/" otherwise, onto
\* the output folder; it is registered by the time generation starts and no
\* step changes it once the server has started.
ExpectedMountUrl ==
    IF resolvedConfig.hasBaseUrl /\ resolvedConfig.baseUrl # ""
    THEN resolvedConfig.baseUrl ELSE "/"

C13_NonEmptyBaseUrlMounted ==
    /\ [](Has("generate") => serverConfig.mount = << << ExpectedMountUrl, outputFolder >> >>)
    /\ [][server # "none" => serverConfig' = serverConfig]_vars

C13_Witness ==
    /\ server = "listening"
    /\ resolvedConfig.hasBaseUrl /\ resolvedConfig.baseUrl = ""
    /\ serverConfig.mount = << << "/", outputFolder >> >>

\* C15: the logged URL is http://<host>:<port> with the port the server bound
\* to; the host is 127.0.0.1 when the bound address is the wildcard 0.0.0.0 and
\* the bound address itself otherwise.
C15_ServeUrl ==
    server = "listening" =>
        /\ Len(listening.serveURL) = 4
        /\ listening.serveURL[1] = "http://" /\ listening.serveURL[3] = ":"
        /\ listening.serveURL[4] = listening.address.port
        /\ listening.address.address = "0.0.0.0" => listening.serveURL[2] = "127.0.0.1"
        /\ listening.address.address # "0.0.0.0" =>
              listening.serveURL[2] = listening.address.address

C15_Witness ==
    /\ server = "listening"
    /\ listening.address = [address |-> "0.0.0.0", port |-> 3000]
    /\ listening.serveURL = << "http://", "127.0.0.1", ":", 3000 >>

\* C16: the startup steps run strictly in the order read configuration,
\* register mount point, generate, install watcher with its three handlers,
\* start the server, log the URL; each at most once, and a step only begins
\* after the previous one has finished.
StartupSteps == << "readSiteConfig", "generate", "chokidar.watch", "liveServer.start",
                   "info:Serving" >>

C16_StartupOrder ==
    cmd = "serve" =>
        /\ \A k \in 1..Len(StartupSteps) : AtMostOnce(StartupSteps[k])
        /\ \A k \in 2..Len(StartupSteps) :
              Has(StartupSteps[k]) => Before(StartupSteps[k - 1], StartupSteps[k])
        /\ Has("generate") => Len(serverConfig.mount) = 1
        /\ genState = "pending" => ~watcher.installed /\ server = "none"
        /\ watcher.installed => genState = "resolved" /\ watcher.on = BoundHandlers
        /\ server # "none" => watcher.installed /\ Has("chokidar.watch")
        /\ server = "listening" <=> Has("info:Serving")

C16_Witness ==
    /\ server = "listening"
    /\ watcher.installed /\ watcher.on = BoundHandlers
    /\ [k \in 1..Len(trace) |-> trace[k].op] =
          << "logo" >> \o StartupSteps \o << "info:Press CTRL+C" >>

\* C17: a step never cancels, replaces or alters another in-flight handler
\* chain: a chain keeps its event and path, only advances from scheduled to
\* running, and leaves the in-flight set only by its own settlement, a step
\* that dispatches nothing and leaves every other chain as it was.
Settles(id) ==
    /\ dispatched' = dispatched
    /\ Len(events') = Len(events) - 1
    /\ \A j \in 1..Len(events) :
          events[j].id # id => \E k \in 1..Len(events') : events'[k] = events[j]

ChainKept(e) ==
    \E k \in 1..Len(events') :
        /\ events'[k].id = e.id
        /\ events'[k].kind = e.kind /\ events'[k].filePath = e.filePath
        /\ events'[k].handler = e.handler
        /\ \/ events'[k] = e
           \/ e.status = "scheduled" /\ events'[k].status = "running"

C17_ChainsIndependent ==
    [][\A i \in 1..Len(events) :
          \/ ChainKept(events[i])
          \/ events[i].status = "running" /\ Settles(events[i].id)]_vars

C17_Witness ==
    \E i, j \in 1..Len(events) :
        /\ i # j
        /\ events[i].filePath = events[j].filePath
        /\ events[i].status = "running" /\ events[j].status = "running"

\* C18: two handler runs for the same path agree on whether the path is a
\* source file: either both call the source rebuild/remove method or both call
\* the asset method, whatever the event kinds and whatever ran in between.
SourceMethods == {"rebuildAffectedSourceFiles"}
AssetMethods == {"buildAsset", "removeAsset"}

C18_ClassificationByPath ==
    \A i, j \in 1..Len(events) :
        (/\ events[i].status = "running" /\ events[j].status = "running"
         /\ events[i].filePath = events[j].filePath) =>
            /\ events[i].method \in SourceMethods <=> events[j].method \in SourceMethods
            /\ events[i].method \in AssetMethods <=> events[j].method \in AssetMethods
            /\ events[i].method \in SourceMethods <=> isSourceFile(events[i].filePath)

C18_Witness ==
    \E i, j \in 1..Len(events) :
        /\ events[i].filePath = events[j].filePath
        /\ events[i].status = "running" /\ events[j].status = "running"
        /\ events[i].kind = "change" /\ events[j].kind = "unlink"
        /\ events[i].method = "buildAsset" /\ events[j].method = "removeAsset"

\* C20 (as stated): once serve is past reading the configuration, the full
\* generation has been invoked exactly once, and the watcher installation and
\* the server start at most once.
C20_GenerateExactlyOnce ==
    (cmd = "serve" /\ pc \notin {"start", "readSiteConfig"}) =>
        /\ Count("generate") = 1
        /\ AtMostOnce("chokidar.watch") /\ AtMostOnce("liveServer.start")

\* C20 (amended): the full generation is invoked at most once, exactly once
\* when the configuration was read successfully, and never by a watch event;
\* the watcher installation and the server start happen at most once.
C20_GenerateOnceAfterConfig ==
    cmd = "serve" =>
        /\ AtMostOnce("generate")
        /\ AtMostOnce("chokidar.watch") /\ AtMostOnce("liveServer.start")
        /\ (pc \notin {"start", "readSiteConfig"} /\ ~ConfigFailed) => Count("generate") = 1
        /\ ConfigFailed => Count("generate") = 0
        /\ dispatched > 0 => Count("generate") = 1 /\ Count("chokidar.watch") = 1

C20_Witness ==
    /\ cmd = "serve" /\ dispatched = MaxEvents
    /\ \E i \in 1..Len(events) : events[i].status = "running"
    /\ Count("generate") = 1 /\ Count("chokidar.watch") = 1 /\ Count("liveServer.start") = 1

====
